---- MODULE Spec2Model ----
(***************************************************************************)
(* Income/expense bookkeeping: the ledger (transactions), the materialized *)
(* period summaries (stats_daily, stats_weekly, stats_monthly), the        *)
(* computed-on-read aggregation and the time bucketing in Europe/Athens.   *)
(*                                                                         *)
(* Instants are whole hours since 1970-01-01T00:00Z.  A JavaScript Date    *)
(* whose host-local fields are used as a wall clock is modelled by that    *)
(* wall clock, in hours.  Period keys are the tuples of the numbers the    *)
(* code formats into the key string.  The updatedAt/createdAt timestamps   *)
(* and the free-text fields of the documents are not modelled.             *)
(***************************************************************************)
EXTENDS Integers, Sequences, FiniteSets, TLC

(* ------------------------------ bounds -------------------------------- *)

\* Ledger records ever created in one behaviour.
MaxTx == 2

\* Category documents ever created in one behaviour.
MaxCategories == 2
\* The number of entries collection 'webhook_errors' holds at most.
MaxErrors == 1

Procs == {"p1", "p2"}

SeqProcs == {"p1"}

\* 2025-01-31T10:00Z (Fri 12:00 in Athens) and 2025-01-31T22:00Z
\* (Sat 2025-02-01 00:00 in Athens): two days and two months of one ISO week.
Instants == {482866, 482878}

Types == {"income", "expense"}

Amounts == {1, 2}

TxIds == 1..MaxTx

CatIds == 1..MaxCategories

CategoryNames == {"Cash", "Online Payment", "Rent"}

NoActor == "none"

Actors == {NoActor, "u1"}

\* null, for a document id that was not found.
NoId == 0

\* UTC offsets, in hours, of the hosts the server may run on (UTC and
\* Asia/Tokyo).
HostOffsets == {0, 9}

(* --------------------------- time bucketing --------------------------- *)

\* Civil (year, month, day) of a day number counted from 1970-01-01.
CivilFromDays(z) ==
    LET z1  == z + 719468
        era == z1 \div 146097
        doe == z1 - era * 146097
        yoe == (doe - doe \div 1460 + doe \div 36524 - doe \div 146096) \div 365
        doy == doe - (365 * yoe + yoe \div 4 - yoe \div 100)
        mp  == (5 * doy + 2) \div 153
        d   == doy - (153 * mp + 2) \div 5 + 1
        m   == IF mp < 10 THEN mp + 3 ELSE mp - 9
        y   == yoe + era * 400 + (IF m <= 2 THEN 1 ELSE 0)
    IN  [year |-> y, month |-> m, day |-> d]

\* Day number, counted from 1970-01-01, of a civil date; day 0 of a month is
\* the last day of the month before, as in new Date(y, m + 1, 0).
DaysFromCivil(y, m, d) ==
    LET y1  == IF m <= 2 THEN y - 1 ELSE y
        era == y1 \div 400
        yoe == y1 - era * 400
        mp  == IF m > 2 THEN m - 3 ELSE m + 9
        doy == (153 * mp + 2) \div 5 + d - 1
        doe == yoe * 365 + yoe \div 4 - yoe \div 100 + doy
    IN  era * 146097 + doe - 719468

\* Date.getDay(): 0 (Sunday) .. 6 (Saturday); 1970-01-01 was a Thursday.
GetDay(z) == (z + 4) % 7

\* The last Sunday of a month, as a day number.
LastSunday(y, m) ==
    LET last == DaysFromCivil(IF m = 12 THEN y + 1 ELSE y,
                              IF m = 12 THEN 1 ELSE m + 1, 1) - 1
    IN  last - GetDay(last)

\* UTC offset of Europe/Athens at an instant, in hours: EET (+2), and EEST
\* (+3) from the last Sunday of March 01:00Z to the last Sunday of October
\* 01:00Z.
TIMEZONE(t) ==
    LET y == CivilFromDays(t \div 24).year
    IN  IF /\ t >= LastSunday(y, 3) * 24 + 1
           /\ t <  LastSunday(y, 10) * 24 + 1
        THEN 3 ELSE 2

\* toZonedTime(date, TIMEZONE): the wall clock of the instant in Athens.
toZonedTime(t) == t + TIMEZONE(t)

\* zonedTimeToUtc(wall, TIMEZONE): the instant at which Athens shows `wall`.
zonedTimeToUtc(w) == IF TIMEZONE(w - 3) = 3 THEN w - 3 ELSE w - 2

\* formatInTimeZone(date, TIMEZONE, 'yyyy-MM-dd')
toDateKey(t) ==
    LET c == CivilFromDays(toZonedTime(t) \div 24)
    IN  <<c.year, c.month, c.day>>

\* formatInTimeZone(date, TIMEZONE, 'yyyy-MM')
toMonthKey(t) ==
    LET c == CivilFromDays(toZonedTime(t) \div 24)
    IN  <<c.year, c.month>>

\* ISO week number of the civil date with day number z: the week of the
\* Thursday of z's Monday-to-Sunday week, counted in that Thursday's year.
getISOWeek(z) ==
    LET dayNum    == IF GetDay(z) = 0 THEN 7 ELSE GetDay(z)
        thu       == z + 4 - dayNum
        yearStart == DaysFromCivil(CivilFromDays(thu).year, 1, 1)
    IN  ((thu - yearStart) + 1 + 6) \div 7

\* `${zonedDate.getFullYear()}-W${week}`: the year is the civil year of the
\* date itself.
toISOWeekKey(t) ==
    LET z == toZonedTime(t) \div 24
    IN  <<CivilFromDays(z).year, getISOWeek(z)>>

\* new Date(year, month - 1, day) is midnight of the date on the HOST clock;
\* toZonedTime shows that instant on the Athens wall clock.
parseDateKey(key, host) ==
    toZonedTime(DaysFromCivil(key[1], key[2], key[3]) * 24 - host)

\* Inclusive range of instants of the Athens day of t.  setHours(0,0,0,0) and
\* setHours(23,59,59,999) act on the wall clock; the end of the day is its
\* last whole hour.
getDayRange(t, host) ==
    LET zoned      == parseDateKey(toDateKey(t), host)
        startLocal == (zoned \div 24) * 24
        endLocal   == (zoned \div 24) * 24 + 23
    IN  [start |-> zonedTimeToUtc(startLocal), end |-> zonedTimeToUtc(endLocal)]

\* Inclusive range of instants of the Monday-to-Sunday week of t.
getWeekRange(t) ==
    LET zoned      == toZonedTime(t)
        day        == GetDay(zoned \div 24)
        diff       == (day + 6) % 7
        startLocal == ((zoned \div 24) - diff) * 24
        endLocal   == startLocal + 6 * 24 + 23
    IN  [start |-> zonedTimeToUtc(startLocal), end |-> zonedTimeToUtc(endLocal)]

\* Inclusive range of instants of the Athens month of t.
getMonthRange(t) ==
    LET c          == CivilFromDays(toZonedTime(t) \div 24)
        startLocal == DaysFromCivil(c.year, c.month, 1) * 24
        endLocal   == DaysFromCivil(IF c.month = 12 THEN c.year + 1 ELSE c.year,
                                    IF c.month = 12 THEN 1 ELSE c.month + 1, 0)
                      * 24 + 23
    IN  [start |-> zonedTimeToUtc(startLocal), end |-> zonedTimeToUtc(endLocal)]

(* ------------------------------- state -------------------------------- *)

VARIABLES
    categories,     \* collection 'categories': id -> name
    transactions,   \* collection 'transactions': id -> record
    stats_daily,    \* collection 'stats_daily': dateKey -> summary
    stats_weekly,   \* collection 'stats_weekly': weekKey -> summary
    stats_monthly,  \* collection 'stats_monthly': monthKey -> summary
    audit_logs,     \* collection 'audit_logs': the number of its entries
    nextId,         \* the next fresh auto-id of collection 'transactions'
    pc,             \* per request handler: the await it is suspended at
    local,          \* per request handler: its arguments and its write batch
    result,         \* per request handler: how its last call ended
    hist,           \* history: the last committed ledger operation and the
                    \* summaries before it
    users,          \* collection 'users': uid -> role
    webhook_errors, \* collection 'webhook_errors': its entries
    request,        \* the HTTP request being handled, and the last response
    clock,          \* the instant and host being bucketed, with the results
    repeatable_payments, \* collection 'repeatable_payments': id -> schedule
    sweep,          \* per sweep request: its snapshot and its place in it
    swept           \* history: what the sweeps created, and how they ran

vars == <<categories, transactions, stats_daily, stats_weekly, stats_monthly,
          audit_logs, nextId, pc, local, result, hist,
          users, webhook_errors, request, clock,
          repeatable_payments, sweep, swept>>

\* The state outside the ledger calls.
outer == <<users, webhook_errors, request, clock,
           repeatable_payments, sweep, swept>>

store == <<transactions, stats_daily, stats_weekly, stats_monthly>>

NoUsers == [u \in {} |-> "staff"]

\* The fields of a webhook payload that is not there.
NoBody ==
    [json |-> "none",
     date |-> [kind |-> "undefined", v |-> 0], type |-> "",
     amount |-> [kind |-> "undefined", v |-> 0],
     categoryId |-> [kind |-> "undefined", v |-> 0], createdBy |-> ""]

\* No request in flight, no response given yet.
NoRequest ==
    [handler |-> "none", pc |-> "idle", body |-> NoBody, ts |-> 0,
     amountCents |-> 0, categoryId |-> NoId, reason |-> "", uid |-> "",
     role |-> "", id |-> NoId, status |-> 0]

NoClock == [run |-> FALSE, t |-> 0, host |-> 0]

\* A schedule: RepeatablePayment; endDate 0 when the field is not set.
NoPayment ==
    [active |-> FALSE, nextDueDate |-> 0, frequency |-> "daily", endDate |-> 0,
     type |-> "income", amountCents |-> 0, categoryId |-> NoId]

NoPayments == [i \in {} |-> NoPayment]

\* No sweep request in flight.
NoSweep ==
    [pc |-> "idle", now |-> 0, host |-> 0, docs |-> <<>>, created |-> 0,
     status |-> 0, start |-> NoPayments, done |-> {}]

\* Nothing swept yet: no transaction made by a sweep, no schedule advanced,
\* no two sweeps in flight together, no sweep ended by an exception.
NoSwept == [made |-> {}, advanced |-> {}, overlap |-> FALSE, thrown |-> FALSE]

ZeroDoc ==
    [incomeCents |-> 0, expenseCents |-> 0, netCents |-> 0,
     countIncome |-> 0, countExpense |-> 0]

NoWrite == [kind |-> "none", key |-> <<>>, doc |-> ZeroDoc]

NoData == [ts |-> 0, type |-> "income", amountCents |-> 0, categoryId |-> NoId]

NoLocal ==
    [op |-> "none", id |-> NoId, actor |-> NoActor, data |-> NoData,
     daily |-> NoWrite, weekly |-> NoWrite, monthly |-> NoWrite]

EmptyFn == [x \in {} |-> ZeroDoc]

(* ---------------------- summaries: updateSummaries -------------------- *)

\* Mutant: the delta of a decrement is not negated.
DeltaNotNegated(operation, amountCents) == amountCents

Delta(operation, amountCents) ==
    IF operation = "increment" THEN amountCents ELSE -amountCents

\* Mutant: a decrement counts the transaction once more.
CountDeltaAlwaysOne(operation) == 1

CountDelta(operation) == IF operation = "increment" THEN 1 ELSE -1

\* The fields batch.update writes over a summary document that exists.
UpdatedDoc(data, type, amountCents, operation) ==
    LET delta           == Delta(operation, amountCents)
        countDelta      == CountDelta(operation)
        newIncomeCents  == IF type = "income"
                           THEN data.incomeCents + delta ELSE data.incomeCents
        newExpenseCents == IF type = "expense"
                           THEN data.expenseCents + delta ELSE data.expenseCents
    IN  [incomeCents  |-> newIncomeCents,
         expenseCents |-> newExpenseCents,
         netCents     |-> newIncomeCents - newExpenseCents,
         countIncome  |-> IF type = "income"
                          THEN data.countIncome + countDelta ELSE data.countIncome,
         countExpense |-> IF type = "expense"
                          THEN data.countExpense + countDelta ELSE data.countExpense]

\* The document batch.set writes when the summary does not exist; the
\* operation is not consulted.
\* Mutant: a seeded document takes the amount as its net.
SeedDocNetIsAmount(type, amountCents, operation) ==
    [incomeCents  |-> IF type = "income" THEN amountCents ELSE 0,
     expenseCents |-> IF type = "expense" THEN amountCents ELSE 0,
     netCents     |-> amountCents,
     countIncome  |-> IF type = "income" THEN 1 ELSE 0,
     countExpense |-> IF type = "expense" THEN 1 ELSE 0]

\* Mutant: a seeded document counts the transaction under both types.
SeedDocBothCounts(type, amountCents, operation) ==
    [incomeCents  |-> IF type = "income" THEN amountCents ELSE 0,
     expenseCents |-> IF type = "expense" THEN amountCents ELSE 0,
     netCents     |-> IF type = "income" THEN amountCents ELSE -amountCents,
     countIncome  |-> 1,
     countExpense |-> 1]

SeedDoc(type, amountCents, operation) ==
    [incomeCents  |-> IF type = "income" THEN amountCents ELSE 0,
     expenseCents |-> IF type = "expense" THEN amountCents ELSE 0,
     netCents     |-> IF type = "income" THEN amountCents ELSE -amountCents,
     countIncome  |-> IF type = "income" THEN 1 ELSE 0,
     countExpense |-> IF type = "expense" THEN 1 ELSE 0]

\* One block of updateSummaries: read the document, then stage an update of
\* it, or a set when it does not exist.
StageSummary(coll, key, type, amountCents, operation) ==
    IF key \in DOMAIN coll
    THEN [kind |-> "update", key |-> key,
          doc |-> UpdatedDoc(coll[key], type, amountCents, operation)]
    ELSE [kind |-> "set", key |-> key,
          doc |-> SeedDoc(type, amountCents, operation)]

Operation(op) == IF op = "create" THEN "increment" ELSE "decrement"

(* ------------------- summaries: computed on read ---------------------- *)

\* The largest element of a non-empty set of document ids.
LastId(S) == CHOOSE x \in S : \A y \in S : y <= x

\* getPaymentTypeIds(): the query result is walked in document-id order, so
\* of several categories of one name the last one stays.
getPaymentTypeIds(cats) ==
    LET cash   == {c \in DOMAIN cats : cats[c] = "Cash"}
        online == {c \in DOMAIN cats : cats[c] = "Online Payment"}
    IN  [cashId   |-> IF cash = {} THEN NoId ELSE LastId(cash),
         onlineId |-> IF online = {} THEN NoId ELSE LastId(online)]

TRANSACTIONS_QUERY_LIMIT == 5000

RECURSIVE IdBound(_, _)
\* A bound, b doubled as often as needed, that no document id of S exceeds.
IdBound(S, b) == IF \A i \in S : i <= b THEN b ELSE IdBound(S, 2 * b)

RECURSIVE IdCut(_, _, _, _)
\* The least id of lo..hi up to which S holds at least n documents.
IdCut(S, n, lo, hi) ==
    IF lo = hi THEN lo
    ELSE LET mid == (lo + hi) \div 2
         IN  IF Cardinality({i \in S : i <= mid}) >= n
             THEN IdCut(S, n, lo, mid)
             ELSE IdCut(S, n, mid + 1, hi)

\* .orderBy('ts').limit(n) over more than n documents S: the documents
\* before the ts at which the n-th one lies, and of the documents at that
\* ts the first ones in the order of the document id.
FirstDocs(txs, S, n) ==
    LET cut   == CHOOSE t \in {txs[i].ts : i \in S} :
                    /\ Cardinality({i \in S : txs[i].ts < t}) < n
                    /\ Cardinality({i \in S : txs[i].ts <= t}) >= n
        early == {i \in S : txs[i].ts < cut}
        ties  == {i \in S : txs[i].ts = cut}
        last  == IdCut(ties, n - Cardinality(early), 1, IdBound(ties, 1))
    IN  early \cup {i \in ties : i <= last}

\* getTransactionsInRange(fromDate, toDate): the ids of the first
\* TRANSACTIONS_QUERY_LIMIT records with fromDate <= ts <= toDate, in the
\* order of ts (and of the document id among equal ts).
getTransactionsInRange(txs, fromDate, toDate) ==
    LET inRange == {i \in DOMAIN txs : txs[i].ts >= fromDate /\ txs[i].ts <= toDate}
    IN  IF Cardinality(inRange) <= TRANSACTIONS_QUERY_LIMIT
        THEN inRange
        ELSE FirstDocs(txs, inRange, TRANSACTIONS_QUERY_LIMIT)

RECURSIVE SumBetween(_, _, _, _)
\* The sum of amountCents over the rows of S with an id in lo..hi, by halves.
SumBetween(txs, S, lo, hi) ==
    IF lo = hi THEN (IF lo \in S THEN txs[lo].amountCents ELSE 0)
    ELSE LET mid == (lo + hi) \div 2
         IN  SumBetween(txs, S, lo, mid) + SumBetween(txs, S, mid + 1, hi)

\* The sum of amountCents over the rows S of txs.
SumAmounts(txs, S) ==
    IF S = {} THEN 0 ELSE SumBetween(txs, S, 1, IdBound(S, 1))

\* computeIncomeExpenseCashOnline(transactions, cashId, onlineId) over rows.
computeIncomeExpenseCashOnline(txs, rows, cashId, onlineId) ==
    LET cashOrOnline(id) == id = cashId \/ id = onlineId
        counted      == {i \in rows : cashOrOnline(txs[i].categoryId)}
        incomeCents  == SumAmounts(txs, {i \in counted : txs[i].type = "income"})
        expenseCents == SumAmounts(txs, {i \in counted : txs[i].type = "expense"})
    IN  [incomeCents  |-> incomeCents,
         expenseCents |-> expenseCents,
         netCents     |-> incomeCents - expenseCents,
         cashCents    |-> SumAmounts(txs, {i \in counted : /\ txs[i].type = "income"
                                                           /\ txs[i].categoryId = cashId}),
         onlineCents  |-> SumAmounts(txs, {i \in counted : /\ txs[i].type = "income"
                                                           /\ txs[i].categoryId = onlineId})]

\* Mutant: the scan counts the transactions of every category.
getComputedPeriodSummaryAllCategories(txs, cats, fromDate, toDate) ==
    LET ids  == getPaymentTypeIds(cats)
        rows == getTransactionsInRange(txs, fromDate, toDate)
        inc  == SumAmounts(txs, {i \in rows : txs[i].type = "income"})
        exp  == SumAmounts(txs, {i \in rows : txs[i].type = "expense"})
    IN  [incomeCents |-> inc, expenseCents |-> exp, netCents |-> inc - exp,
         cashCents |-> 0, onlineCents |-> 0]

\* getComputedPeriodSummary(fromDate, toDate)
getComputedPeriodSummary(txs, cats, fromDate, toDate) ==
    LET ids      == getPaymentTypeIds(cats)
        rows     == getTransactionsInRange(txs, fromDate, toDate)
        filtered == {i \in rows : \/ txs[i].categoryId = ids.cashId
                                  \/ txs[i].categoryId = ids.onlineId}
    IN  computeIncomeExpenseCashOnline(txs, filtered, ids.cashId, ids.onlineId)

\* Mutant: the payment totals sum the transactions of either type.
getPaymentTypeTotalsAnyType(txs, cats, fromDate, toDate) ==
    LET ids  == getPaymentTypeIds(cats)
        rows == getTransactionsInRange(txs, fromDate, toDate)
    IN  [cashCents   |-> SumAmounts(txs, {i \in rows :
                                             /\ ids.cashId # NoId
                                             /\ txs[i].categoryId = ids.cashId}),
         onlineCents |-> SumAmounts(txs, {i \in rows :
                                             /\ ids.onlineId # NoId
                                             /\ txs[i].categoryId = ids.onlineId})]

\* getPaymentTypeTotals(fromDate, toDate)
getPaymentTypeTotals(txs, cats, fromDate, toDate) ==
    LET ids      == getPaymentTypeIds(cats)
        rows     == getTransactionsInRange(txs, fromDate, toDate)
        filtered == {i \in rows : \/ txs[i].categoryId = ids.cashId
                                  \/ txs[i].categoryId = ids.onlineId}
        s        == computeIncomeExpenseCashOnline(txs, filtered, ids.cashId, ids.onlineId)
    IN  IF ids.cashId = NoId /\ ids.onlineId = NoId
        THEN [cashCents |-> 0, onlineCents |-> 0]
        ELSE [cashCents |-> s.cashCents, onlineCents |-> s.onlineCents]

\* A computed summary as the dashboard returns it: the counts are 0.
AsSummary(s) ==
    [incomeCents |-> s.incomeCents, expenseCents |-> s.expenseCents,
     netCents |-> s.netCents, countIncome |-> 0, countExpense |-> 0]

\* a.localeCompare(b) < 0 for two week keys or two month keys: the keys are
\* zero-padded, so their order is the order of their numbers.
KeyBefore(a, b) == a[1] < b[1] \/ (a[1] = b[1] /\ a[2] < b[2])

RECURSIVE SortedDescending(_)
\* .sort((a, b) => b.key.localeCompare(a.key)) over the keys of a Map.
SortedDescending(S) ==
    IF S = {} THEN <<>>
    ELSE LET k == CHOOSE x \in S : \A y \in S \ {x} : KeyBefore(y, x)
         IN  <<k>> \o SortedDescending(S \ {k})

\* rows.slice(0, n)
slice(rows, n) == SubSeq(rows, 1, IF Len(rows) < n THEN Len(rows) ELSE n)

\* The key a history table groups a record under: toISOWeekKey for the
\* weekly table, toMonthKey for the monthly one.
TableKey(table, ts) ==
    IF table = "weekly" THEN toISOWeekKey(ts) ELSE toMonthKey(ts)

\* The rows of a history table: the scanned records grouped by period key in
\* a Map, one row per key that has a record, most recent key first, at most
\* n rows.
TableRows(txs, cats, rows, table, n) ==
    LET ids   == getPaymentTypeIds(cats)
        keys  == {TableKey(table, txs[i].ts) : i \in rows}
        order == slice(SortedDescending(keys), n)
    IN  [j \in 1..Len(order) |->
            LET sum == computeIncomeExpenseCashOnline(
                          txs, {i \in rows : TableKey(table, txs[i].ts) = order[j]},
                          ids.cashId, ids.onlineId)
            IN  [key |-> order[j], incomeCents |-> sum.incomeCents,
                 expenseCents |-> sum.expenseCents, netCents |-> sum.netCents,
                 countIncome |-> 0, countExpense |-> 0]]

\* getComputedWeeklyTable(), and the weeklyTable of getDashboardData: the
\* records from the start of the week of now - 56 days to the end of the
\* current week.
getComputedWeeklyTable(txs, cats, now) ==
    LET eightWeeksAgo == now - 8 * 7 * 24
        rangeStart    == getWeekRange(eightWeeksAgo).start
        weekEnd       == getWeekRange(now).end
    IN  TableRows(txs, cats, getTransactionsInRange(txs, rangeStart, weekEnd),
                  "weekly", 8)

\* getComputedMonthlyTable(), and the monthlyTable of getDashboardData: the
\* records from the start of the month of now, twelve months back on the
\* host's calendar, to the end of the current month.
getComputedMonthlyTable(txs, cats, now, host) ==
    LET wall            == now + host
        c               == CivilFromDays(wall \div 24)
        twelveMonthsAgo == DaysFromCivil(c.year - 1, c.month, c.day) * 24
                              + (wall % 24) - host
        rangeStart      == getMonthRange(twelveMonthsAgo).start
        monthEnd        == getMonthRange(now).end
    IN  TableRows(txs, cats, getTransactionsInRange(txs, rangeStart, monthEnd),
                  "monthly", 12)

\* getDashboardData() at instant `now` on a host with UTC offset `host`: the
\* current day, week and month, their payment totals, and the weekly and
\* monthly history tables.
getDashboardData(txs, cats, now, host) ==
    LET day          == getDayRange(now, host)
        week         == getWeekRange(now)
        month        == getMonthRange(now)
        daySummary   == getComputedPeriodSummary(txs, cats, day.start, day.end)
        weekSummary  == getComputedPeriodSummary(txs, cats, week.start, week.end)
        monthSummary == getComputedPeriodSummary(txs, cats, month.start, month.end)
    IN  [todayKey |-> toDateKey(now),
         weekKey  |-> toISOWeekKey(now),
         monthKey |-> toMonthKey(now),
         today    |-> AsSummary(daySummary),
         week     |-> AsSummary(weekSummary),
         month    |-> AsSummary(monthSummary),
         todayPayments |-> [cashCents |-> daySummary.cashCents,
                            onlineCents |-> daySummary.onlineCents],
         weekPayments  |-> [cashCents |-> weekSummary.cashCents,
                            onlineCents |-> weekSummary.onlineCents],
         monthPayments |-> [cashCents |-> monthSummary.cashCents,
                            onlineCents |-> monthSummary.onlineCents],
         weeklyTable  |-> getComputedWeeklyTable(txs, cats, now),
         monthlyTable |-> getComputedMonthlyTable(txs, cats, now, host)]

(* ------------------------------ actions ------------------------------- *)

Init ==
    /\ categories = [c \in {} |-> "Rent"]
    /\ transactions = [i \in {} |-> NoData]
    /\ stats_daily = EmptyFn
    /\ stats_weekly = EmptyFn
    /\ stats_monthly = EmptyFn
    /\ audit_logs = 0
    /\ nextId = 1
    /\ pc = [p \in Procs |-> "idle"]
    /\ local = [p \in Procs |-> NoLocal]
    /\ result = [p \in Procs |-> "none"]
    /\ hist = [last |-> [op |-> "none", id |-> NoId],
               prev |-> <<EmptyFn, EmptyFn, EmptyFn>>]
    /\ users = NoUsers
    /\ webhook_errors = {}
    /\ request = NoRequest
    /\ clock = NoClock
    /\ repeatable_payments = NoPayments
    /\ sweep = [p \in Procs |-> NoSweep]
    /\ swept = NoSwept

\* createTransaction calls whose record has not been committed yet.
PendingCreates ==
    {q \in Procs : local[q].op = "create"
                   /\ pc[q] \in {"read_daily", "read_weekly", "read_monthly", "commit"}}

\* createCategory(name): a new document under a fresh auto-id; the name is
\* not checked against the names in use.
createCategory(name) ==
    /\ \E id \in CatIds \ DOMAIN categories :
          categories' = [c \in DOMAIN categories \cup {id} |->
                            IF c = id THEN name ELSE categories[c]]
    /\ UNCHANGED <<transactions, stats_daily, stats_weekly, stats_monthly,
                   audit_logs, nextId, pc, local, result, hist>>
    /\ UNCHANGED outer

\* createTransaction(data) up to its first await: the record is staged with
\* batch.set under an auto-id, and updateSummaries is entered.
createTransaction(p, ts, type, amountCents, categoryId) ==
    /\ pc[p] = "idle"
    /\ nextId + Cardinality(PendingCreates) <= MaxTx
    /\ local' = [local EXCEPT ![p] =
                    [NoLocal EXCEPT !.op = "create",
                                    !.actor = "u1",
                                    !.data = [ts |-> ts, type |-> type,
                                              amountCents |-> amountCents,
                                              categoryId |-> categoryId]]]
    /\ pc' = [pc EXCEPT ![p] = "read_daily"]
    /\ result' = [result EXCEPT ![p] = "none"]
    /\ UNCHANGED <<categories, transactions, stats_daily, stats_weekly,
                   stats_monthly, audit_logs, nextId, hist>>

\* Mutant: a missing record is not reported, the call returns normally.
deleteTransactionSilent(p, transactionId, actorId) ==
    /\ pc[p] = "idle"
    /\ IF transactionId \notin DOMAIN transactions
       THEN /\ result' = [result EXCEPT ![p] = "ok"]
            /\ UNCHANGED <<pc, local>>
       ELSE /\ local' = [local EXCEPT ![p] =
                            [NoLocal EXCEPT !.op = "delete",
                                            !.id = transactionId,
                                            !.actor = actorId,
                                            !.data = transactions[transactionId]]]
            /\ pc' = [pc EXCEPT ![p] = "read_daily"]
            /\ result' = [result EXCEPT ![p] = "none"]
    /\ UNCHANGED <<categories, transactions, stats_daily, stats_weekly,
                   stats_monthly, audit_logs, nextId, hist>>

\* deleteTransaction(transactionId, actorId) up to the record's read: 'Transaction
\* not found' when it does not exist, else batch.delete is staged and
\* updateSummaries is entered with the record's fields.
deleteTransaction(p, transactionId, actorId) ==
    /\ pc[p] = "idle"
    /\ IF transactionId \notin DOMAIN transactions
       THEN /\ result' = [result EXCEPT ![p] = "Transaction not found"]
            /\ UNCHANGED <<pc, local>>
       ELSE /\ local' = [local EXCEPT ![p] =
                            [NoLocal EXCEPT !.op = "delete",
                                            !.id = transactionId,
                                            !.actor = actorId,
                                            !.data = transactions[transactionId]]]
            /\ pc' = [pc EXCEPT ![p] = "read_daily"]
            /\ result' = [result EXCEPT ![p] = "none"]
    /\ UNCHANGED <<categories, transactions, stats_daily, stats_weekly,
                   stats_monthly, audit_logs, nextId, hist>>

\* updateSummaries, daily block: await dailyRef.get(), then stage the write.
ReadDaily(p) ==
    /\ pc[p] = "read_daily"
    /\ local' = [local EXCEPT ![p].daily =
                    StageSummary(stats_daily, toDateKey(local[p].data.ts),
                                 local[p].data.type, local[p].data.amountCents,
                                 Operation(local[p].op))]
    /\ pc' = [pc EXCEPT ![p] = "read_weekly"]
    /\ UNCHANGED <<categories, transactions, stats_daily, stats_weekly,
                   stats_monthly, audit_logs, nextId, result, hist>>

\* updateSummaries, weekly block.
ReadWeekly(p) ==
    /\ pc[p] = "read_weekly"
    /\ local' = [local EXCEPT ![p].weekly =
                    StageSummary(stats_weekly, toISOWeekKey(local[p].data.ts),
                                 local[p].data.type, local[p].data.amountCents,
                                 Operation(local[p].op))]
    /\ pc' = [pc EXCEPT ![p] = "read_monthly"]
    /\ UNCHANGED <<categories, transactions, stats_daily, stats_weekly,
                   stats_monthly, audit_logs, nextId, result, hist>>

\* updateSummaries, monthly block.
ReadMonthly(p) ==
    /\ pc[p] = "read_monthly"
    /\ local' = [local EXCEPT ![p].monthly =
                    StageSummary(stats_monthly, toMonthKey(local[p].data.ts),
                                 local[p].data.type, local[p].data.amountCents,
                                 Operation(local[p].op))]
    /\ pc' = [pc EXCEPT ![p] = "commit"]
    /\ UNCHANGED <<categories, transactions, stats_daily, stats_weekly,
                   stats_monthly, audit_logs, nextId, result, hist>>

\* A collection after one staged summary write.
ApplyWrite(coll, w) ==
    [k \in DOMAIN coll \cup {w.key} |-> IF k = w.key THEN w.doc ELSE coll[k]]

\* The ledger after the batch's record write: batch.set of the new record, or
\* batch.delete (which succeeds on a document that is gone).
ApplyLedger(txs, l, id) ==
    IF l.op = "create"
    THEN [i \in DOMAIN txs \cup {id} |-> IF i = id THEN l.data ELSE txs[i]]
    ELSE [i \in DOMAIN txs \ {id} |-> txs[i]]

\* The server accepts a batch when every batch.update names a document that
\* exists.
BatchValid(l) ==
    /\ l.daily.kind = "update" => l.daily.key \in DOMAIN stats_daily
    /\ l.weekly.kind = "update" => l.weekly.key \in DOMAIN stats_weekly
    /\ l.monthly.kind = "update" => l.monthly.key \in DOMAIN stats_monthly

\* Mutant: the batch is applied in part, the monthly summary write is lost.
CommitBatchTorn(l, id) ==
    [transactions  |-> ApplyLedger(transactions, l, id),
     stats_daily   |-> ApplyWrite(stats_daily, l.daily),
     stats_weekly  |-> ApplyWrite(stats_weekly, l.weekly),
     stats_monthly |-> stats_monthly]

\* The collections after batch.commit() of the four staged writes.
CommitBatch(l, id) ==
    [transactions  |-> ApplyLedger(transactions, l, id),
     stats_daily   |-> ApplyWrite(stats_daily, l.daily),
     stats_weekly  |-> ApplyWrite(stats_weekly, l.weekly),
     stats_monthly |-> ApplyWrite(stats_monthly, l.monthly)]

\* await batch.commit(): the four writes are applied together.  The history
\* is kept when `record` is set.
Commit(p, record) ==
    /\ pc[p] = "commit"
    /\ BatchValid(local[p])
    /\ LET id  == IF local[p].op = "create" THEN nextId ELSE local[p].id
           new == CommitBatch(local[p], id)
       IN  /\ transactions' = new.transactions
           /\ stats_daily' = new.stats_daily
           /\ stats_weekly' = new.stats_weekly
           /\ stats_monthly' = new.stats_monthly
           /\ nextId' = IF local[p].op = "create" THEN nextId + 1 ELSE nextId
           /\ hist' = IF record
                       THEN [last |-> [op |-> local[p].op, id |-> id],
                             prev |-> <<stats_daily, stats_weekly, stats_monthly>>]
                       ELSE hist
           /\ IF local[p].op = "create" \/ local[p].actor # NoActor
              THEN /\ pc' = [pc EXCEPT ![p] = "audit"]
                   /\ local' = [local EXCEPT ![p].id = id]
                   /\ UNCHANGED result
              ELSE /\ pc' = [pc EXCEPT ![p] = "idle"]
                   /\ local' = [local EXCEPT ![p] = NoLocal]
                   /\ result' = [result EXCEPT ![p] = "ok"]
    /\ UNCHANGED <<categories, audit_logs>>

\* await logAudit(...), then the call returns.
LogAudit(p) ==
    /\ pc[p] = "audit"
    /\ audit_logs' = audit_logs + 1
    /\ pc' = [pc EXCEPT ![p] = "idle"]
    /\ local' = [local EXCEPT ![p] = NoLocal]
    /\ result' = [result EXCEPT ![p] = "ok"]
    /\ UNCHANGED <<categories, transactions, stats_daily, stats_weekly,
                   stats_monthly, nextId, hist>>

\* The pending await rejects (the store is unreachable, or the batch is
\* refused) or the process dies: the call ends there, and an uncommitted
\* batch is dropped with it.
Abort(p) ==
    /\ pc[p] # "idle"
    /\ pc' = [pc EXCEPT ![p] = "idle"]
    /\ local' = [local EXCEPT ![p] = NoLocal]
    /\ result' = [result EXCEPT ![p] = "failed"]
    /\ UNCHANGED <<categories, transactions, stats_daily, stats_weekly,
                   stats_monthly, audit_logs, nextId, hist>>

\* The steps of request handler p, with the calls' arguments drawn from `in`.
Step(p, in) ==
    /\ \/ \E ts \in in.ts, type \in Types, amountCents \in in.amountCents,
             categoryId \in in.categoryId :
             createTransaction(p, ts, type, amountCents, categoryId)
       \/ \E transactionId \in TxIds, actorId \in in.actorId :
             deleteTransaction(p, transactionId, actorId)
       \/ ReadDaily(p)
       \/ ReadWeekly(p)
       \/ ReadMonthly(p)
       \/ Commit(p, in.history)
       \/ LogAudit(p)
       \/ Abort(p)
    /\ UNCHANGED outer

\* Arguments of the concurrent calls: every call falls into the same day,
\* week and month.
ConcInputs ==
    [ts |-> {482866}, amountCents |-> Amounts, categoryId |-> {1},
     actorId |-> {NoActor}, history |-> FALSE]

\* Arguments of the calls made one at a time.
SeqInputs ==
    [ts |-> Instants, amountCents |-> Amounts, categoryId |-> CatIds,
     actorId |-> Actors, history |-> TRUE]

\* Concurrent request handlers over an empty store.
Next == \E p \in Procs : Step(p, ConcInputs)

Spec == Init /\ [][Next]_vars

\* One request at a time, with the category registry.
NextSeq ==
    \/ \E p \in SeqProcs : Step(p, SeqInputs)
    \/ \E name \in CategoryNames : createCategory(name)

SpecSeq == Init /\ [][NextSeq]_vars

(* -------- a store in any state: summaries not built by this run -------- *)

\* A summary document as an earlier run may have left it.
SampleDoc ==
    [incomeCents |-> 3, expenseCents |-> 1, netCents |-> 2,
     countIncome |-> 2, countExpense |-> 1]

DateKeys == {toDateKey(t) : t \in Instants}

WeekKeys == {toISOWeekKey(t) : t \in Instants}

MonthKeys == {toMonthKey(t) : t \in Instants}

\* Each summary document of the modelled periods is absent or present, and
\* the ledger is empty or holds one record.
InitAny ==
    /\ categories = [c \in {} |-> "Rent"]
    /\ \E S \in SUBSET DateKeys : stats_daily = [k \in S |-> SampleDoc]
    /\ \E S \in SUBSET WeekKeys : stats_weekly = [k \in S |-> SampleDoc]
    /\ \E S \in SUBSET MonthKeys : stats_monthly = [k \in S |-> SampleDoc]
    /\ \/ /\ transactions = [i \in {} |-> NoData]
          /\ nextId = 1
       \/ /\ \E ts \in Instants, type \in Types, amountCents \in Amounts :
                transactions = [i \in {1} |->
                                   [ts |-> ts, type |-> type,
                                    amountCents |-> amountCents, categoryId |-> 1]]
          /\ nextId = 2
    /\ audit_logs = 0
    /\ pc = [p \in Procs |-> "idle"]
    /\ local = [p \in Procs |-> NoLocal]
    /\ result = [p \in Procs |-> "none"]
    /\ hist = [last |-> [op |-> "none", id |-> NoId],
               prev |-> <<stats_daily, stats_weekly, stats_monthly>>]
    /\ users = NoUsers
    /\ webhook_errors = {}
    /\ request = NoRequest
    /\ clock = NoClock
    /\ repeatable_payments = NoPayments
    /\ sweep = [p \in Procs |-> NoSweep]
    /\ swept = NoSwept

AnyInputs ==
    [ts |-> Instants, amountCents |-> Amounts, categoryId |-> {1},
     actorId |-> {NoActor}, history |-> TRUE]

NextAny == \E p \in SeqProcs : Step(p, AnyInputs)

\* One request at a time over a store in any state.
SpecAny == InitAny /\ [][NextAny]_vars

(* --------------------------- ingestion webhook ------------------------ *)

\* The request handler that runs the webhook's createTransaction call.
WebProc == "p1"

\* A valid payload: an ISO date, income, 0.010 major units, category 1.
BaseBody ==
    [json |-> "object",
     date |-> [kind |-> "iso", v |-> 482866], type |-> "income",
     amount |-> [kind |-> "number", v |-> 10],
     categoryId |-> [kind |-> "id", v |-> 1], createdBy |-> "u1"]

\* Values of `date`: left out, a number, a string that is no date, a
\* YYYY-MM-DD string (v: days since 1970-01-01) and an ISO string (v: the
\* instant).
BodyDates ==
    {[kind |-> "undefined", v |-> 0], [kind |-> "number", v |-> 482866],
     [kind |-> "text", v |-> 0], [kind |-> "day", v |-> 20119],
     [kind |-> "iso", v |-> 482878]}

\* Values of `type`; "" is the field left out.
BodyTypes == {"", "income", "expense", "transfer"}

\* Values of `amount`: left out, a value parseFloat reads as NaN, and a
\* value parseFloat reads as the number v / 1000.
BodyAmounts ==
    {[kind |-> "undefined", v |-> 0], [kind |-> "nan", v |-> 0]}
       \cup {[kind |-> "number", v |-> v] : v \in {-1000, 0, 4, 5, 20}}

\* Values of `categoryId`: left out, the sentinels "cash" and "online", the
\* id of a category document, a number, and a string with a slash in it.
BodyCategoryIds ==
    {[kind |-> k, v |-> 0] : k \in {"undefined", "cash", "online", "number", "path"}}
       \cup {[kind |-> "id", v |-> c] : c \in CatIds}

\* The payloads posted: the body null, and the valid payload with one field
\* changed.
Bodies ==
    {[NoBody EXCEPT !.json = "null"]}
       \cup {[BaseBody EXCEPT !.date = d] : d \in BodyDates}
       \cup {[BaseBody EXCEPT !.type = t] : t \in BodyTypes}
       \cup {[BaseBody EXCEPT !.amount = a] : a \in BodyAmounts}
       \cup {[BaseBody EXCEPT !.categoryId = c] : c \in BodyCategoryIds}
       \cup {[BaseBody EXCEPT !.createdBy = u] : u \in {"", "u1"}}

\* Math.round(parseFloat(amount) * 100), for an amount of v / 1000.
AmountCents(amount) == (amount.v + 5) \div 10

\* new Date(date + 'T00:00:00') reads a YYYY-MM-DD string in the host's
\* local time; new Date(date) reads an ISO string with its own offset.
TransactionDate(date, host) ==
    IF date.kind = "day" THEN date.v * 24 - host ELSE date.v

\* The request ends with a response of that status.
Respond(status) == [NoRequest EXCEPT !.status = status]

\* logWebhookError(body, reason) is awaited next, the 400 response follows it.
Reject(body, reason) ==
    [NoRequest EXCEPT !.handler = "webhook", !.pc = "log", !.body = body,
                      !.reason = reason]

\* An exception reaches the catch block of POST.
Caught(body, message) ==
    [NoRequest EXCEPT !.handler = "webhook", !.pc = "caught", !.body = body,
                      !.reason = message]

\* POST, from request.json() to the amount check: no await but the first.
WebPost(body, host) ==
    /\ request.pc = "idle"
    /\ pc[WebProc] = "idle"
    /\ request' =
          IF body.json = "null"
          THEN Caught(body, "Cannot destructure property 'date' of 'body' as it is null.")
          ELSE IF \/ body.date.kind = "undefined"
                  \/ body.type = ""
                  \/ body.amount.kind = "undefined"
                  \/ body.categoryId.kind = "undefined"
                  \/ body.createdBy = ""
          THEN Reject(body, "Missing required fields")
          ELSE IF body.type # "income" /\ body.type # "expense"
          THEN Reject(body, "Invalid type")
          ELSE IF body.date.kind \in {"number", "text"}
          THEN Reject(body, "Invalid date format")
          ELSE IF body.amount.kind = "nan" \/ AmountCents(body.amount) <= 0
          THEN Reject(body, "Amount must be a positive number")
          ELSE [NoRequest EXCEPT !.handler = "webhook", !.pc = "resolve",
                                 !.body = body,
                                 !.ts = TransactionDate(body.date, host),
                                 !.amountCents = AmountCents(body.amount)]
    /\ UNCHANGED <<categories, transactions, stats_daily, stats_weekly,
                   stats_monthly, audit_logs, nextId, pc, local, result, hist,
                   users, webhook_errors, clock,
                   repeatable_payments, sweep, swept>>

\* getOrCreatePaymentTypeCategory(name): the id of the category of that
\* name, created when there is none.
getOrCreatePaymentTypeCategory(cats, name, freeId) ==
    LET named == {c \in DOMAIN cats : cats[c] = name}
    IN  IF named # {}
        THEN [id |-> CHOOSE c \in named : \A d \in named : c <= d, cats |-> cats]
        ELSE [id |-> freeId,
              cats |-> [c \in DOMAIN cats \cup {freeId} |->
                           IF c = freeId THEN name ELSE cats[c]]]

\* POST, the payment type categories: "cash" and "online" are resolved to
\* the Cash and Online Payment categories.
WebResolve ==
    /\ request.pc = "resolve"
    /\ LET kind == request.body.categoryId.kind
       IN  IF kind \in {"cash", "online"}
           THEN \E freeId \in CatIds :
                   /\ freeId \notin DOMAIN categories
                      \/ \E c \in DOMAIN categories :
                            categories[c] = IF kind = "cash" THEN "Cash"
                                            ELSE "Online Payment"
                   /\ freeId \in DOMAIN categories
                      => freeId = CHOOSE c \in CatIds : \A d \in CatIds : c <= d
                   /\ LET r == getOrCreatePaymentTypeCategory(
                                  categories,
                                  IF kind = "cash" THEN "Cash" ELSE "Online Payment",
                                  freeId)
                      IN  /\ categories' = r.cats
                          /\ request' = [request EXCEPT !.pc = "verify",
                                                        !.categoryId = r.id]
           ELSE /\ request' = [request EXCEPT !.pc = "verify",
                                              !.categoryId = request.body.categoryId.v]
                /\ UNCHANGED categories
    /\ UNCHANGED <<transactions, stats_daily, stats_weekly, stats_monthly,
                   audit_logs, nextId, pc, local, result, hist,
                   users, webhook_errors, clock,
                   repeatable_payments, sweep, swept>>

\* POST, the category check and the call of createTransaction: doc() throws
\* on an id that is no string or no document path.
WebVerify ==
    /\ request.pc = "verify"
    /\ IF request.body.categoryId.kind \in {"number", "path"}
       THEN /\ request' = Caught(request.body, "Value for argument documentPath is not a valid resource path")
            /\ UNCHANGED <<pc, local, result>>
       ELSE IF request.categoryId \notin DOMAIN categories
       THEN /\ request' = Reject(request.body, "Category ID does not exist")
            /\ UNCHANGED <<pc, local, result>>
       ELSE /\ createTransaction(WebProc, request.ts, request.body.type,
                                 request.amountCents, request.categoryId)
            /\ request' = [request EXCEPT !.pc = "create"]
    /\ UNCHANGED <<categories, transactions, stats_daily, stats_weekly,
                   stats_monthly, audit_logs, nextId, hist,
                   users, webhook_errors, clock,
                   repeatable_payments, sweep, swept>>

\* POST awaiting createTransaction: 200 when it returns the id, the catch
\* block when it rejects.
WebCreate ==
    /\ request.pc = "create"
    /\ \/ ReadDaily(WebProc)
       \/ ReadWeekly(WebProc)
       \/ ReadMonthly(WebProc)
       \/ Commit(WebProc, TRUE)
       \/ LogAudit(WebProc)
       \/ Abort(WebProc)
    /\ request' = IF pc'[WebProc] # "idle" THEN request
                  ELSE IF result'[WebProc] = "ok" THEN Respond(200)
                  ELSE Caught(request.body, "createTransaction rejected")
    /\ UNCHANGED <<users, webhook_errors, clock,
                   repeatable_payments, sweep, swept>>

\* Collection 'webhook_errors' can take the entry within the model's bound.
HasRoom(entry) ==
    entry \in webhook_errors \/ Cardinality(webhook_errors) < MaxErrors

\* await logWebhookError(body, reason) of a validation branch, then its 400
\* response; when the add rejects, the exception reaches the catch block.
WebLog(stored) ==
    /\ request.pc = "log"
    /\ IF stored
       THEN /\ HasRoom([payload |-> request.body, error |-> request.reason])
            /\ webhook_errors' = webhook_errors \cup
                  {[payload |-> request.body, error |-> request.reason]}
            /\ request' = Respond(400)
       ELSE /\ request' = Caught(request.body, "store unavailable")
            /\ UNCHANGED webhook_errors
    /\ UNCHANGED <<categories, transactions, stats_daily, stats_weekly,
                   stats_monthly, audit_logs, nextId, pc, local, result, hist,
                   users, clock,
                   repeatable_payments, sweep, swept>>

\* The catch block: logWebhookError(null, message) inside its own try, then
\* the 500 response.
WebCaught(stored) ==
    /\ request.pc = "caught"
    /\ stored => HasRoom([payload |-> [NoBody EXCEPT !.json = "null"],
                          error |-> request.reason])
    /\ webhook_errors' = IF stored
                         THEN webhook_errors \cup
                                 {[payload |-> [NoBody EXCEPT !.json = "null"],
                                   error |-> request.reason]}
                         ELSE webhook_errors
    /\ request' = Respond(500)
    /\ UNCHANGED <<categories, transactions, stats_daily, stats_weekly,
                   stats_monthly, audit_logs, nextId, pc, local, result, hist,
                   users, clock,
                   repeatable_payments, sweep, swept>>

NextWeb ==
    \/ \E body \in Bodies, host \in HostOffsets : WebPost(body, host)
    \/ WebResolve
    \/ WebVerify
    \/ WebCreate
    \/ \E stored \in BOOLEAN : WebLog(stored)
    \/ \E stored \in BOOLEAN : WebCaught(stored)
    \/ createCategory("Rent")

\* The webhook, one request at a time.
SpecWeb == Init /\ [][NextWeb]_vars

(* ------------------- sessions, roles, the delete route ---------------- *)

\* The uids sessions are held for; "" is a request without a valid session
\* cookie.
Uids == {"u1", "u2"}

\* The delete route as guarded by requireUser and as guarded by
\* requireAdmin: src/unnamed/part_008 holds both.
DeleteRoutes == {"delete_user", "delete_admin"}

\* The request handler that runs the route's deleteTransaction call, and the
\* one that creates the records.
RouteProc == "p1"

OtherProc == "p2"

\* POST of a delete route up to the first await of getUserFromRequest: no
\* session cookie, or one that does not verify, makes the user null and
\* requireUser answer with the redirect to /login.
RoutePost(route, uid, id) ==
    /\ request.pc = "idle"
    /\ pc[RouteProc] = "idle"
    /\ request' = IF uid = ""
                  THEN Respond(302)
                  ELSE [NoRequest EXCEPT !.handler = route, !.pc = "user_get",
                                         !.uid = uid, !.id = id]
    /\ UNCHANGED <<categories, transactions, stats_daily, stats_weekly,
                   stats_monthly, audit_logs, nextId, pc, local, result, hist,
                   users, webhook_errors, clock,
                   repeatable_payments, sweep, swept>>

\* Mutant: the user document is written at every request.
UserGetAlwaysSet ==
    /\ request.pc = "user_get"
    /\ request' = [request EXCEPT !.pc = "user_set"]
    /\ UNCHANGED <<categories, transactions, stats_daily, stats_weekly,
                   stats_monthly, audit_logs, nextId, pc, local, result, hist,
                   users, webhook_errors, clock,
                   repeatable_payments, sweep, swept>>

\* getUserFromRequest: await db.collection('users').doc(uid).get().
UserGet ==
    /\ request.pc = "user_get"
    /\ request' = IF request.uid \in DOMAIN users
                  THEN [request EXCEPT !.pc = "guard", !.role = users[request.uid]]
                  ELSE [request EXCEPT !.pc = "user_set"]
    /\ UNCHANGED <<categories, transactions, stats_daily, stats_weekly,
                   stats_monthly, audit_logs, nextId, pc, local, result, hist,
                   users, webhook_errors, clock,
                   repeatable_payments, sweep, swept>>

\* getUserFromRequest, first login: set({role: 'staff', ...}).
UserSet ==
    /\ request.pc = "user_set"
    /\ users' = [u \in DOMAIN users \cup {request.uid} |->
                    IF u = request.uid THEN "staff" ELSE users[u]]
    /\ request' = [request EXCEPT !.pc = "guard", !.role = "staff"]
    /\ UNCHANGED <<categories, transactions, stats_daily, stats_weekly,
                   stats_monthly, audit_logs, nextId, pc, local, result, hist,
                   webhook_errors, clock,
                   repeatable_payments, sweep, swept>>

\* An await of getUserFromRequest rejects: the catch block returns null, and
\* requireUser answers with the redirect.
UserFail ==
    /\ request.pc \in {"user_get", "user_set"}
    /\ request' = Respond(302)
    /\ UNCHANGED <<categories, transactions, stats_daily, stats_weekly,
                   stats_monthly, audit_logs, nextId, pc, local, result, hist,
                   users, webhook_errors, clock,
                   repeatable_payments, sweep, swept>>

\* The route after requireUser / requireAdmin: 403 for requireAdmin and a
\* role other than admin, 400 without an id, else deleteTransaction(id),
\* whose 'Transaction not found' is answered 500.
RouteGuard ==
    /\ request.pc = "guard"
    /\ IF request.handler = "delete_admin" /\ request.role # "admin"
       THEN /\ request' = Respond(403)
            /\ UNCHANGED <<pc, local, result>>
       ELSE IF request.id = NoId
       THEN /\ request' = Respond(400)
            /\ UNCHANGED <<pc, local, result>>
       ELSE /\ deleteTransaction(RouteProc, request.id, NoActor)
            /\ request' = IF pc'[RouteProc] = "idle" THEN Respond(500)
                          ELSE [request EXCEPT !.pc = "delete"]
    /\ UNCHANGED <<categories, transactions, stats_daily, stats_weekly,
                   stats_monthly, audit_logs, nextId, hist,
                   users, webhook_errors, clock,
                   repeatable_payments, sweep, swept>>

\* The route awaiting deleteTransaction: the redirect to /transactions when
\* it returns, 500 when it rejects.
RouteDelete ==
    /\ request.pc = "delete"
    /\ \/ ReadDaily(RouteProc)
       \/ ReadWeekly(RouteProc)
       \/ ReadMonthly(RouteProc)
       \/ Commit(RouteProc, TRUE)
       \/ Abort(RouteProc)
    /\ request' = IF pc'[RouteProc] # "idle" THEN request
                  ELSE IF result'[RouteProc] = "ok" THEN Respond(302)
                  ELSE Respond(500)
    /\ UNCHANGED <<users, webhook_errors, clock,
                   repeatable_payments, sweep, swept>>

\* The README's promotion: the role of an existing user document is set to
\* admin in the Firebase console.
PromoteOutOfBand(uid) ==
    /\ uid \in DOMAIN users
    /\ users[uid] # "admin"
    /\ users' = [users EXCEPT ![uid] = "admin"]
    /\ UNCHANGED <<categories, transactions, stats_daily, stats_weekly,
                   stats_monthly, audit_logs, nextId, pc, local, result, hist,
                   webhook_errors, request, clock,
                   repeatable_payments, sweep, swept>>

\* Records are created while the routes are used.
CreateRecords ==
    /\ \/ \E amountCents \in Amounts :
             createTransaction(OtherProc, 482866, "income", amountCents, 1)
       \/ ReadDaily(OtherProc)
       \/ ReadWeekly(OtherProc)
       \/ ReadMonthly(OtherProc)
       \/ Commit(OtherProc, TRUE)
       \/ LogAudit(OtherProc)
    /\ UNCHANGED outer

NextAuth ==
    \/ \E route \in DeleteRoutes, uid \in Uids \cup {""}, id \in TxIds \cup {NoId} :
          RoutePost(route, uid, id)
    \/ UserGet
    \/ UserSet
    \/ UserFail
    \/ RouteGuard
    \/ RouteDelete
    \/ \E uid \in Uids : PromoteOutOfBand(uid)
    \/ CreateRecords

\* The delete routes, one request at a time, with the users' roles.
SpecAuth == Init /\ [][NextAuth]_vars

(* ------------------------ bucketing of instants ----------------------- *)

\* The days bucketed: the days around each New Year of 2019..2027, and the
\* days around the two daylight saving changes of 2025.
ClockDays ==
    {DaysFromCivil(y, 1, 1) + d : y \in 2019..2027, d \in -4..4}
       \cup {LastSunday(2025, m) + d : m \in {3, 10}, d \in -1..1}

\* The instants bucketed: hours of those days, in UTC.
ClockInstants == {z * 24 + h : z \in ClockDays, h \in {0, 11, 21, 22, 23}}

\* The instant of a Date whose fields on the host clock show `wall`.
HostToInstant(wall, host) == wall - host

\* The store before any request, and an instant and a host to bucket.
InitDates ==
    /\ categories = [c \in {} |-> "Rent"]
    /\ transactions = [i \in {} |-> NoData]
    /\ stats_daily = EmptyFn
    /\ stats_weekly = EmptyFn
    /\ stats_monthly = EmptyFn
    /\ audit_logs = 0
    /\ nextId = 1
    /\ pc = [p \in Procs |-> "idle"]
    /\ local = [p \in Procs |-> NoLocal]
    /\ result = [p \in Procs |-> "none"]
    /\ hist = [last |-> [op |-> "none", id |-> NoId],
               prev |-> <<EmptyFn, EmptyFn, EmptyFn>>]
    /\ users = NoUsers
    /\ webhook_errors = {}
    /\ request = NoRequest
    /\ \E t \in ClockInstants, host \in HostOffsets :
          clock = [run |-> FALSE, t |-> t, host |-> host]
    /\ repeatable_payments = NoPayments
    /\ sweep = [p \in Procs |-> NoSweep]
    /\ swept = NoSwept

\* The key and range functions of dates.ts applied to the instant clock.t on
\* a host with UTC offset clock.host.  parseDateKey is applied to the date key
\* of the instant; of the Date it returns, `parsed` holds the date fields and
\* `parsedInstant` the instant.
Bucket ==
    /\ ~clock.run
    /\ clock' = [run |-> TRUE, t |-> clock.t, host |-> clock.host,
                 dateKey |-> toDateKey(clock.t),
                 weekKey |-> toISOWeekKey(clock.t),
                 monthKey |-> toMonthKey(clock.t),
                 parsed |-> CivilFromDays(
                               parseDateKey(toDateKey(clock.t), clock.host) \div 24),
                 parsedInstant |-> HostToInstant(
                               parseDateKey(toDateKey(clock.t), clock.host), clock.host),
                 dayRange |-> getDayRange(clock.t, clock.host),
                 weekRange |-> getWeekRange(clock.t),
                 monthRange |-> getMonthRange(clock.t)]
    /\ UNCHANGED <<categories, transactions, stats_daily, stats_weekly,
                   stats_monthly, audit_logs, nextId, pc, local, result, hist,
                   users, webhook_errors, request,
                   repeatable_payments, sweep, swept>>

NextDates == Bucket

\* The functions of dates.ts over the instants and hosts.
SpecDates == InitDates /\ [][NextDates]_vars

(* --------------------- the repeated-payment sweep --------------------- *)

Frequencies == {"daily", "weekly", "monthly", "yearly"}

\* Mutant: the due date is moved on by two periods.
calculateNextDueDateTwice(lastDate, frequency, host) ==
    LET wall == lastDate + host
        z    == wall \div 24
        c    == CivilFromDays(z)
        next == CASE frequency = "daily"   -> z + 2
                  [] frequency = "weekly"  -> z + 14
                  [] frequency = "monthly" -> DaysFromCivil(c.year, c.month + 2, c.day)
                  [] frequency = "yearly"  -> DaysFromCivil(c.year + 2, c.month, c.day)
    IN  HostToInstant(next * 24 + (wall % 24), host)

\* calculateNextDueDate(lastDate, frequency): setDate, setMonth or
\* setFullYear on the host-local fields of the date; a day past the end of
\* the month runs over into the month after it.
calculateNextDueDate(lastDate, frequency, host) ==
    LET wall == lastDate + host
        z    == wall \div 24
        c    == CivilFromDays(z)
        next == CASE frequency = "daily"   -> z + 1
                  [] frequency = "weekly"  -> z + 7
                  [] frequency = "monthly" -> DaysFromCivil(c.year, c.month + 1, c.day)
                  [] frequency = "yearly"  -> DaysFromCivil(c.year + 1, c.month, c.day)
    IN  HostToInstant(next * 24 + (wall % 24), host)

\* Mutant: the query leaves out the filter on `active`.
DueIdsAnyActive(payments, now) ==
    {i \in DOMAIN payments : payments[i].nextDueDate <= now}

\* where('active', '==', true).where('nextDueDate', '<=', now): the ids the
\* query matches.
DueIds(payments, now) ==
    {i \in DOMAIN payments : payments[i].active /\ payments[i].nextDueDate <= now}

RECURSIVE QueryDocs(_, _)
\* snapshot.docs: the matched documents with the data read, in the order of
\* nextDueDate (and of the document id among equal dates).
QueryDocs(payments, S) ==
    IF S = {} THEN <<>>
    ELSE LET i == CHOOSE x \in S : \A y \in S :
                     \/ payments[x].nextDueDate < payments[y].nextDueDate
                     \/ payments[x].nextDueDate = payments[y].nextDueDate /\ x <= y
         IN  <<[id |-> i, data |-> payments[i]]>> \o QueryDocs(payments, S \ {i})

\* Mutant: the update leaves nextDueDate as it was.
AdvancedPaymentKept(payment, updatedNextDue) == payment

\* doc(doc.id).update({nextDueDate: updatedNextDue, updatedAt}): the schedule
\* after the update.
AdvancedPayment(payment, updatedNextDue) ==
    [payment EXCEPT !.nextDueDate = updatedNextDue]

\* The sweep ends with an exception leaving the handler: no response of its
\* own, and nothing more is written.
SweepThrown(p) ==
    /\ sweep' = [sweep EXCEPT ![p] = [@ EXCEPT !.pc = "idle", !.status = 500,
                                               !.docs = <<>>]]
    /\ swept' = [swept EXCEPT !.thrown = TRUE]

\* POST: requireAdmin has passed; `now` is read from the clock and the query
\* is awaited.
SweepPost(p) ==
    /\ sweep[p].pc = "idle"
    /\ pc[p] = "idle"
    /\ sweep' = [sweep EXCEPT ![p] =
                    [pc |-> "next", now |-> clock.t, host |-> clock.host,
                     docs |-> QueryDocs(repeatable_payments,
                                        DueIds(repeatable_payments, clock.t)),
                     created |-> 0, status |-> 0,
                     start |-> repeatable_payments, done |-> {}]]
    /\ swept' = [swept EXCEPT !.overlap =
                    @ \/ \E q \in Procs \ {p} : sweep[q].pc # "idle"]
    /\ UNCHANGED <<categories, transactions, stats_daily, stats_weekly,
                   stats_monthly, audit_logs, nextId, pc, local, result, hist,
                   users, webhook_errors, request, clock, repeatable_payments>>

\* Mutant: the loop body updates the schedule first, and createTransaction is
\* not called before it.
SweepNextUpdateFirst(p) ==
    /\ sweep[p].pc = "next"
    /\ sweep' = [sweep EXCEPT ![p] =
                    IF sweep[p].docs = <<>>
                    THEN [@ EXCEPT !.pc = "idle", !.status = 200]
                    ELSE [@ EXCEPT !.pc = "update"]]
    /\ UNCHANGED <<categories, transactions, stats_daily, stats_weekly,
                   stats_monthly, audit_logs, nextId, pc, local, result, hist,
                   users, webhook_errors, request, clock,
                   repeatable_payments, swept>>

\* The head of the loop over snapshot.docs: createTransaction is called with
\* the next document's data, or the response is given after the last one.
SweepNext(p) ==
    /\ sweep[p].pc = "next"
    /\ IF sweep[p].docs = <<>>
       THEN /\ sweep' = [sweep EXCEPT ![p] = [@ EXCEPT !.pc = "idle", !.status = 200]]
            /\ UNCHANGED <<pc, local, result>>
       ELSE /\ LET data == Head(sweep[p].docs).data
               IN  createTransaction(p, data.nextDueDate, data.type,
                                     data.amountCents, data.categoryId)
            /\ sweep' = [sweep EXCEPT ![p].pc = "create"]
    /\ UNCHANGED <<categories, transactions, stats_daily, stats_weekly,
                   stats_monthly, audit_logs, nextId, hist,
                   users, webhook_errors, request, clock,
                   repeatable_payments, swept>>

\* Mutant: createTransaction is not awaited, the loop body goes on at once.
SweepCreateNotAwaited(p) ==
    /\ sweep[p].pc = "create"
    /\ Abort(p)
    /\ sweep' = [sweep EXCEPT ![p].pc = "update"]
    /\ UNCHANGED <<users, webhook_errors, request, clock,
                   repeatable_payments, swept>>

\* The loop body awaiting createTransaction: the update of the schedule comes
\* when it has returned the id; when it rejects, the exception leaves the
\* handler.
SweepCreate(p) ==
    /\ sweep[p].pc = "create"
    /\ \/ ReadDaily(p)
       \/ ReadWeekly(p)
       \/ ReadMonthly(p)
       \/ Commit(p, FALSE)
       \/ LogAudit(p)
       \/ Abort(p)
    /\ LET doc   == Head(sweep[p].docs)
           entry == [payment |-> doc.id, due |-> doc.data.nextDueDate, tx |-> nextId]
           made  == IF pc[p] = "commit" /\ pc'[p] = "audit"
                    THEN swept.made \cup {entry} ELSE swept.made
           done  == IF pc[p] = "commit" /\ pc'[p] = "audit"
                    THEN sweep[p].done \cup {entry} ELSE sweep[p].done
       IN  IF pc'[p] # "idle"
           THEN /\ sweep' = [sweep EXCEPT ![p].done = done]
                /\ swept' = [swept EXCEPT !.made = made]
           ELSE IF result'[p] = "ok"
           THEN /\ sweep' = [sweep EXCEPT ![p].pc = "update"]
                /\ UNCHANGED swept
           ELSE SweepThrown(p)
    /\ UNCHANGED <<users, webhook_errors, request, clock, repeatable_payments>>

\* The loop body: calculateNextDueDate of the due date read by the query, and
\* the awaited update of the schedule; the update can reject.
SweepUpdate(p, ok) ==
    /\ sweep[p].pc = "update"
    /\ IF ok
       THEN LET doc == Head(sweep[p].docs)
                updatedNextDue == calculateNextDueDate(doc.data.nextDueDate,
                                                       doc.data.frequency,
                                                       sweep[p].host)
            IN  /\ repeatable_payments' =
                      [repeatable_payments EXCEPT ![doc.id] =
                          AdvancedPayment(@, updatedNextDue)]
                /\ sweep' = [sweep EXCEPT ![p].pc = "audit"]
                /\ swept' = [swept EXCEPT !.advanced =
                                @ \cup {[payment |-> doc.id,
                                         due |-> doc.data.nextDueDate]}]
       ELSE /\ SweepThrown(p)
            /\ UNCHANGED repeatable_payments
    /\ UNCHANGED <<categories, transactions, stats_daily, stats_weekly,
                   stats_monthly, audit_logs, nextId, pc, local, result, hist,
                   users, webhook_errors, request, clock>>

\* The loop body: the awaited logAudit('repeatable.run_due'), then
\* created += 1 and the next document; logAudit can reject.
SweepAudit(p, ok) ==
    /\ sweep[p].pc = "audit"
    /\ IF ok
       THEN /\ audit_logs' = audit_logs + 1
            /\ sweep' = [sweep EXCEPT ![p] =
                            [@ EXCEPT !.pc = "next", !.docs = Tail(@),
                                      !.created = @ + 1]]
            /\ UNCHANGED swept
       ELSE /\ SweepThrown(p)
            /\ UNCHANGED audit_logs
    /\ UNCHANGED <<categories, transactions, stats_daily, stats_weekly,
                   stats_monthly, nextId, pc, local, result, hist,
                   users, webhook_errors, request, clock, repeatable_payments>>

\* 2025-01-15T10:00Z and 2025-01-31T10:00Z.
DueDates == {482482, 482866}

\* 2025-01-20T10:00Z and 2025-02-01T10:00Z.
SweepNows == {482602, 482890}

\* The schedules in the store: schedule 1 of any kind, with or without an
\* endDate (2025-01-20T10:00Z), and beside it no schedule or a weekly one that
\* is due.
SweepPayments ==
    LET first == [active : BOOLEAN, nextDueDate : DueDates,
                  frequency : Frequencies, endDate : {0, 482602},
                  type : {"income"}, amountCents : {1}, categoryId : {1}]
        other == [active |-> TRUE, nextDueDate |-> 482482, frequency |-> "weekly",
                  endDate |-> 0, type |-> "expense", amountCents |-> 2,
                  categoryId |-> 1]
    IN  {[i \in {1} |-> f] : f \in first}
           \cup {[i \in {1, 2} |-> IF i = 1 THEN f ELSE other] : f \in first}

\* An empty ledger, schedules in the store, and the server's clock and host.
InitSweep ==
    /\ categories = [c \in {1} |-> "Cash"]
    /\ transactions = [i \in {} |-> NoData]
    /\ stats_daily = EmptyFn
    /\ stats_weekly = EmptyFn
    /\ stats_monthly = EmptyFn
    /\ audit_logs = 0
    /\ nextId = 1
    /\ pc = [p \in Procs |-> "idle"]
    /\ local = [p \in Procs |-> NoLocal]
    /\ result = [p \in Procs |-> "none"]
    /\ hist = [last |-> [op |-> "none", id |-> NoId],
               prev |-> <<EmptyFn, EmptyFn, EmptyFn>>]
    /\ users = NoUsers
    /\ webhook_errors = {}
    /\ request = NoRequest
    /\ \E now \in SweepNows, host \in HostOffsets :
          clock = [run |-> FALSE, t |-> now, host |-> host]
    /\ repeatable_payments \in SweepPayments
    /\ sweep = [p \in Procs |-> NoSweep]
    /\ swept = NoSwept

NextSweep ==
    \E p \in Procs :
       \/ SweepPost(p)
       \/ SweepNext(p)
       \/ SweepCreate(p)
       \/ \E ok \in BOOLEAN : SweepUpdate(p, ok)
       \/ \E ok \in BOOLEAN : SweepAudit(p, ok)

\* Sweep requests, also two at a time, over the schedules.
SpecSweep == InitSweep /\ [][NextSweep]_vars

(* ------------------------- the dashboard read ------------------------- *)

\* 2025-02-01T10:00Z, whose last eight weeks reach back over New Year, and
\* 2025-06-14T10:00Z.
TableNows == {482890, 486082}

\* The weeks before now that may hold a record.
TableWeeksBack == 0..9

\* A ledger with one Cash income record in each week of K, counted back from
\* now, oldest first.
WeeklyLedger(now, K) ==
    [i \in 1..Cardinality(K) |->
        LET k == CHOOSE x \in K : Cardinality({j \in K : j >= x}) = i
        IN  [ts |-> now - k * 7 * 24, type |-> "income", amountCents |-> 1,
             categoryId |-> 1]]

\* A ledger of weekly records, and the server's clock and host.
InitTables ==
    /\ categories = [c \in {1} |-> "Cash"]
    /\ \E now \in TableNows, host \in HostOffsets, K \in SUBSET TableWeeksBack :
          /\ transactions = WeeklyLedger(now, K)
          /\ nextId = Cardinality(K) + 1
          /\ clock = [run |-> FALSE, t |-> now, host |-> host]
    /\ stats_daily = EmptyFn
    /\ stats_weekly = EmptyFn
    /\ stats_monthly = EmptyFn
    /\ audit_logs = 0
    /\ pc = [p \in Procs |-> "idle"]
    /\ local = [p \in Procs |-> NoLocal]
    /\ result = [p \in Procs |-> "none"]
    /\ hist = [last |-> [op |-> "none", id |-> NoId],
               prev |-> <<EmptyFn, EmptyFn, EmptyFn>>]
    /\ users = NoUsers
    /\ webhook_errors = {}
    /\ request = NoRequest
    /\ repeatable_payments = NoPayments
    /\ sweep = [p \in Procs |-> NoSweep]
    /\ swept = NoSwept

\* A dashboard request: the history tables of getDashboardData() are answered
\* from the ledger.
DashboardGet ==
    /\ request.handler = "none"
    /\ request' = [handler |-> "dashboard", pc |-> "idle", status |-> 200,
                   data |-> [weeklyTable  |-> getComputedWeeklyTable(
                                                 transactions, categories, clock.t),
                             monthlyTable |-> getComputedMonthlyTable(
                                                 transactions, categories, clock.t,
                                                 clock.host)]]
    /\ UNCHANGED <<categories, transactions, stats_daily, stats_weekly,
                   stats_monthly, audit_logs, nextId, pc, local, result, hist,
                   users, webhook_errors, clock,
                   repeatable_payments, sweep, swept>>

NextTables == DashboardGet

\* The dashboard read over ledgers of weekly records.
SpecTables == InitTables /\ [][NextTables]_vars

(* ----------------------- the period summary read ---------------------- *)

\* 2025-02-01T10:00Z, the earlier of the two instants the scanned records
\* carry.
ScanBase == 482890

\* The ledger sizes: small ledgers, and ledgers at and over the query limit.
ScanSizes ==
    0..10 \cup {TRANSACTIONS_QUERY_LIMIT, TRANSACTIONS_QUERY_LIMIT + 1,
                TRANSACTIONS_QUERY_LIMIT + 2}

\* The ranges asked for: from and to around the two instants.
ScanRanges ==
    {r \in {ScanBase - 24, ScanBase, ScanBase + 24}
            \X {ScanBase, ScanBase + 24, ScanBase + 48} : r[1] <= r[2]}

\* A ledger of n records over two days, of both types, in the categories
\* Cash, Online Payment and Rent.
ScanLedger(n) ==
    [i \in 1..n |->
        [ts |-> ScanBase + 24 * (i % 2),
         type |-> IF i % 5 < 3 THEN "income" ELSE "expense",
         amountCents |-> 1 + (i % 2),
         categoryId |-> 1 + (i % 3)]]

\* A ledger of some size, with the payment-type categories registered.
InitScan ==
    /\ categories = (1 :> "Cash") @@ (2 :> "Online Payment") @@ (3 :> "Rent")
    /\ \E n \in ScanSizes :
          /\ transactions = ScanLedger(n)
          /\ nextId = n + 1
    /\ stats_daily = EmptyFn
    /\ stats_weekly = EmptyFn
    /\ stats_monthly = EmptyFn
    /\ audit_logs = 0
    /\ pc = [p \in Procs |-> "idle"]
    /\ local = [p \in Procs |-> NoLocal]
    /\ result = [p \in Procs |-> "none"]
    /\ hist = [last |-> [op |-> "none", id |-> NoId],
               prev |-> <<EmptyFn, EmptyFn, EmptyFn>>]
    /\ users = NoUsers
    /\ webhook_errors = {}
    /\ request = NoRequest
    /\ clock = NoClock
    /\ repeatable_payments = NoPayments
    /\ sweep = [p \in Procs |-> NoSweep]
    /\ swept = NoSwept

\* A report request: getComputedPeriodSummary(fromDate, toDate) is answered
\* from the ledger.
PeriodSummaryGet(fromDate, toDate) ==
    /\ request.handler = "none"
    /\ request' = [handler |-> "summary", pc |-> "idle", status |-> 200,
                   fromDate |-> fromDate, toDate |-> toDate,
                   data |-> getComputedPeriodSummary(transactions, categories,
                                                     fromDate, toDate)]
    /\ UNCHANGED <<categories, transactions, stats_daily, stats_weekly,
                   stats_monthly, audit_logs, nextId, pc, local, result, hist,
                   users, webhook_errors, clock,
                   repeatable_payments, sweep, swept>>

NextScan == \E r \in ScanRanges : PeriodSummaryGet(r[1], r[2])

SpecScan == InitScan /\ [][NextScan]_vars

(* ------------------------------ properties ---------------------------- *)

\* The ledger records of one type whose period key, under keyOf, is k.
LedgerRows(keyOf(_), k, type) ==
    {i \in DOMAIN transactions :
        keyOf(transactions[i].ts) = k /\ transactions[i].type = type}

\* A stored summary document agrees with the ledger.
AgreesWithLedger(doc, keyOf(_), k) ==
    /\ doc.incomeCents = SumAmounts(transactions, LedgerRows(keyOf, k, "income"))
    /\ doc.expenseCents = SumAmounts(transactions, LedgerRows(keyOf, k, "expense"))
    /\ doc.countIncome = Cardinality(LedgerRows(keyOf, k, "income"))
    /\ doc.countExpense = Cardinality(LedgerRows(keyOf, k, "expense"))

\* The fields of a summary document, 0 when the document does not exist.
DocOrZero(coll, k) == IF k \in DOMAIN coll THEN coll[k] ELSE ZeroDoc

\* Handler p completes batch.commit() of a call `op` in this step.
Commits(p, op) ==
    /\ pc[p] = "commit"
    /\ local[p].op = op
    /\ pc'[p] # "commit"
    /\ result'[p] # "failed"

\* C1: createTransaction and deleteTransaction apply the record write/delete
\* and the three summary adjustments as one indivisible unit: whenever the
\* ledger or a summary collection changes, the step is the commit of one
\* call's whole batch (the record write and all three summary writes), and a
\* call that fails or dies at any step changes none of them; and every record
\* of the ledger has its day, week and month summary documents.
C1_AtomicUnit ==
    /\ [](\A i \in DOMAIN transactions :
            /\ toDateKey(transactions[i].ts) \in DOMAIN stats_daily
            /\ toISOWeekKey(transactions[i].ts) \in DOMAIN stats_weekly
            /\ toMonthKey(transactions[i].ts) \in DOMAIN stats_monthly)
    /\ [][store' # store =>
            \E p \in Procs :
               /\ pc[p] = "commit"
               /\ result'[p] # "failed"
               /\ LET l  == local[p]
                      id == IF l.op = "create" THEN nextId ELSE l.id
                  IN  /\ l.op = "create" =>
                            /\ id \notin DOMAIN transactions
                            /\ DOMAIN transactions' = DOMAIN transactions \cup {id}
                            /\ transactions'[id] = l.data
                      /\ l.op = "delete" =>
                            DOMAIN transactions' = DOMAIN transactions \ {id}
                      /\ \A i \in DOMAIN transactions' \ {id} :
                            transactions'[i] = transactions[i]
                      /\ l.daily.key = toDateKey(l.data.ts)
                      /\ l.weekly.key = toISOWeekKey(l.data.ts)
                      /\ l.monthly.key = toMonthKey(l.data.ts)
                      /\ l.daily.key \in DOMAIN stats_daily'
                      /\ stats_daily'[l.daily.key] = l.daily.doc
                      /\ l.weekly.key \in DOMAIN stats_weekly'
                      /\ stats_weekly'[l.weekly.key] = l.weekly.doc
                      /\ l.monthly.key \in DOMAIN stats_monthly'
                      /\ stats_monthly'[l.monthly.key] = l.monthly.doc]_vars

\* C1 witness: a record is committed with its summaries while one call has
\* failed and another holds a staged, uncommitted batch.
C1_Witness ==
    /\ DOMAIN transactions # {}
    /\ \E p, q \in Procs : result[p] = "failed" /\ pc[q] = "commit"

\* C2: with the calls executed one at a time from an empty store, every
\* stored day, week and month summary agrees with the ledger in incomeCents,
\* expenseCents, countIncome and countExpense.
C2_SummariesAgreeWithLedger ==
    /\ \A k \in DOMAIN stats_daily : AgreesWithLedger(stats_daily[k], toDateKey, k)
    /\ \A k \in DOMAIN stats_weekly : AgreesWithLedger(stats_weekly[k], toISOWeekKey, k)
    /\ \A k \in DOMAIN stats_monthly : AgreesWithLedger(stats_monthly[k], toMonthKey, k)

\* C2 witness: two records were created and one of them deleted, and a week
\* summary still counts the remaining one.
C2_Witness ==
    /\ nextId = 3
    /\ Cardinality(DOMAIN transactions) = 1
    /\ \E k \in DOMAIN stats_weekly :
          stats_weekly[k].countIncome + stats_weekly[k].countExpense = 1
    /\ \E k \in DOMAIN stats_daily : stats_daily[k] = ZeroDoc

\* C3 (as claimed): while only creations have committed, every stored summary
\* reflects every committed record, also when the creations ran concurrently.
C3_NoLostUpdate ==
    nextId - 1 = Cardinality(DOMAIN transactions) =>
        /\ \A k \in DOMAIN stats_daily : AgreesWithLedger(stats_daily[k], toDateKey, k)
        /\ \A k \in DOMAIN stats_weekly : AgreesWithLedger(stats_weekly[k], toISOWeekKey, k)
        /\ \A k \in DOMAIN stats_monthly : AgreesWithLedger(stats_monthly[k], toMonthKey, k)

\* The document an increment seeds from a single transaction.
SeededFrom(type, amountCents) ==
    [incomeCents  |-> IF type = "income" THEN amountCents ELSE 0,
     expenseCents |-> IF type = "expense" THEN amountCents ELSE 0,
     netCents     |-> IF type = "income" THEN amountCents ELSE -amountCents,
     countIncome  |-> IF type = "income" THEN 1 ELSE 0,
     countExpense |-> IF type = "expense" THEN 1 ELSE 0]

\* A summary collection, every key of DateKeys, WeekKeys and MonthKeys
\* read with absent documents as zeros.
Values(coll) ==
    [k \in DateKeys \cup WeekKeys \cup MonthKeys |-> DocOrZero(coll, k)]

\* C4: createTransaction followed by deleteTransaction of the returned id is
\* a net no-op on the summaries, for every transaction and every prior state
\* of the summaries: incomeCents, expenseCents, netCents, countIncome and
\* countExpense of the day, week and month summaries (an absent document
\* counting as zeros) are back at their pre-create values.
C4_CreateThenDeleteIsNoOp ==
    [][\A p \in Procs :
          (Commits(p, "delete") /\ hist.last = [op |-> "create", id |-> local[p].id])
          => /\ Values(stats_daily') = Values(hist.prev[1])
             /\ Values(stats_weekly') = Values(hist.prev[2])
             /\ Values(stats_monthly') = Values(hist.prev[3])]_vars

\* C4 witness: the record created last, over summaries that existed before
\* it, has been deleted again while an older record stays in the ledger.
C4_Witness ==
    /\ hist.last = [op |-> "delete", id |-> 2]
    /\ 1 \in DOMAIN transactions
    /\ \E k \in DOMAIN stats_daily : stats_daily[k] = SampleDoc
    /\ \E k \in DOMAIN stats_monthly : stats_monthly[k] = ZeroDoc

\* The effect C5 states for the summary collection `old` becoming `new`,
\* where k is the transaction's period key.
IncrementedAt(old, new, k, type, amountCents) ==
    /\ DOMAIN new = DOMAIN old \cup {k}
    /\ \A j \in DOMAIN old \ {k} : new[j] = old[j]
    /\ k \notin DOMAIN old => new[k] = SeededFrom(type, amountCents)
    /\ k \in DOMAIN old =>
          IF type = "income"
          THEN /\ new[k].incomeCents = old[k].incomeCents + amountCents
               /\ new[k].countIncome = old[k].countIncome + 1
               /\ new[k].expenseCents = old[k].expenseCents
               /\ new[k].countExpense = old[k].countExpense
          ELSE /\ new[k].expenseCents = old[k].expenseCents + amountCents
               /\ new[k].countExpense = old[k].countExpense + 1
               /\ new[k].incomeCents = old[k].incomeCents
               /\ new[k].countIncome = old[k].countIncome

\* C5: an increment for a transaction of type T and amount A creates each of
\* its day, week and month summary documents, seeded from that transaction,
\* when the document does not exist, and otherwise adds A to the total of T
\* and 1 to the count of T; the total and count of the other type and the
\* documents of all other period keys stay as they were.
C5_Increment ==
    [][\A p \in Procs :
          Commits(p, "create")
          => LET d == local[p].data
             IN  /\ IncrementedAt(stats_daily, stats_daily',
                                  toDateKey(d.ts), d.type, d.amountCents)
                 /\ IncrementedAt(stats_weekly, stats_weekly',
                                  toISOWeekKey(d.ts), d.type, d.amountCents)
                 /\ IncrementedAt(stats_monthly, stats_monthly',
                                  toMonthKey(d.ts), d.type, d.amountCents)]_vars

\* C5 witness: an increment has seeded one summary document and added to
\* another that existed before it.
C5_Witness ==
    /\ hist.last.op = "create"
    /\ hist.last.id \in DOMAIN transactions
    /\ LET d == transactions[hist.last.id]
       IN  /\ toDateKey(d.ts) \notin DOMAIN hist.prev[1]
           /\ stats_daily[toDateKey(d.ts)] = SeededFrom(d.type, d.amountCents)
           /\ toMonthKey(d.ts) \in DOMAIN hist.prev[3]
           /\ stats_monthly[toMonthKey(d.ts)] # hist.prev[3][toMonthKey(d.ts)]

\* The effect C6 states for the summary collection `old` becoming `new`,
\* where k is the transaction's period key.
DecrementedAt(old, new, k, type, amountCents) ==
    /\ k \in DOMAIN new
    /\ IF type = "income"
       THEN /\ new[k].incomeCents = DocOrZero(old, k).incomeCents - amountCents
            /\ new[k].countIncome = DocOrZero(old, k).countIncome - 1
       ELSE /\ new[k].expenseCents = DocOrZero(old, k).expenseCents - amountCents
            /\ new[k].countExpense = DocOrZero(old, k).countExpense - 1

\* C6 (as claimed): a decrement lowers the total matching the transaction's
\* type by amountCents and the matching count by 1 in the day, week and month
\* summaries, whether the target document exists or not.
C6_Decrement ==
    [][\A p \in Procs :
          Commits(p, "delete")
          => LET d == local[p].data
             IN  /\ DecrementedAt(stats_daily, stats_daily',
                                  toDateKey(d.ts), d.type, d.amountCents)
                 /\ DecrementedAt(stats_weekly, stats_weekly',
                                  toISOWeekKey(d.ts), d.type, d.amountCents)
                 /\ DecrementedAt(stats_monthly, stats_monthly',
                                  toMonthKey(d.ts), d.type, d.amountCents)]_vars

\* The instants that bound the scanned ranges.
RangeBounds == {482854, 482866, 482877, 482878, 482900}

\* The ranges [fromDate, toDate] handed to the computed-on-read functions.
Ranges == {r \in [start : RangeBounds, end : RangeBounds] : r.start <= r.end}

\* C7: every stored day, week and month summary document has
\* netCents = incomeCents - expenseCents, and so has every summary that
\* getComputedPeriodSummary computes on read.
C7_NetIsIncomeMinusExpense ==
    /\ \A k \in DOMAIN stats_daily :
          stats_daily[k].netCents =
             stats_daily[k].incomeCents - stats_daily[k].expenseCents
    /\ \A k \in DOMAIN stats_weekly :
          stats_weekly[k].netCents =
             stats_weekly[k].incomeCents - stats_weekly[k].expenseCents
    /\ \A k \in DOMAIN stats_monthly :
          stats_monthly[k].netCents =
             stats_monthly[k].incomeCents - stats_monthly[k].expenseCents
    /\ \A r \in Ranges :
          LET s == getComputedPeriodSummary(transactions, categories, r.start, r.end)
          IN  s.netCents = s.incomeCents - s.expenseCents

\* C7 witness: a stored summary and a computed summary both have expenses
\* above income.
C7_Witness ==
    /\ \E k \in DOMAIN stats_monthly :
          /\ stats_monthly[k].netCents < 0
          /\ stats_monthly[k].incomeCents > 0
    /\ \E r \in Ranges :
          getComputedPeriodSummary(transactions, categories, r.start, r.end).netCents < 0

\* The records the step adds to or removes from the ledger.
ChangedRecords ==
    {transactions'[i] : i \in DOMAIN transactions' \ DOMAIN transactions}
       \cup {transactions[i] : i \in DOMAIN transactions \ DOMAIN transactions'}

\* The category is not one named "Cash" or "Online Payment".
OtherCategory(categoryId) ==
    \/ categoryId \notin DOMAIN categories
    \/ categories[categoryId] \notin {"Cash", "Online Payment"}

\* C8: computed-on-read aggregation counts only transactions of the Cash and
\* Online Payment categories: adding a transaction of any other category to
\* the ledger, or removing one, changes the computed incomeCents,
\* expenseCents and netCents of no scanned range.
C8_OnlyCashAndOnlineCounted ==
    [][(ChangedRecords # {} /\ \A t \in ChangedRecords : OtherCategory(t.categoryId))
        => \A r \in Ranges :
              LET old == getComputedPeriodSummary(transactions, categories,
                                                  r.start, r.end)
                  new == getComputedPeriodSummary(transactions', categories',
                                                  r.start, r.end)
              IN  /\ new.incomeCents = old.incomeCents
                  /\ new.expenseCents = old.expenseCents
                  /\ new.netCents = old.netCents]_vars

\* C8 witness: the ledger holds a Cash record and a record of another
\* category of one day, and the computed income is the Cash record's alone.
C8_Witness ==
    \E i, j \in DOMAIN transactions :
       /\ transactions[i].categoryId = getPaymentTypeIds(categories).cashId
       /\ transactions[i].type = "income"
       /\ OtherCategory(transactions[j].categoryId)
       /\ transactions[j].categoryId \in DOMAIN categories
       /\ transactions[j].type = "income"
       /\ transactions[j].ts = transactions[i].ts
       /\ getComputedPeriodSummary(transactions, categories,
                                   transactions[i].ts, transactions[i].ts).incomeCents
             = transactions[i].amountCents

C10_DashboardReadsSummaries ==
    \A now \in Instants, host \in HostOffsets :
       LET d == getDashboardData(transactions, categories, now, host)
           same(a, b) == /\ a.incomeCents = b.incomeCents
                         /\ a.expenseCents = b.expenseCents
                         /\ a.netCents = b.netCents
       IN  /\ same(d.today, DocOrZero(stats_daily, d.todayKey))
           /\ same(d.week, DocOrZero(stats_weekly, d.weekKey))
           /\ same(d.month, DocOrZero(stats_monthly, d.monthKey))

\* C12: deleteTransaction on an id that is not in the ledger fails with
\* 'Transaction not found' and leaves the ledger, every summary document and
\* the audit log unchanged: a call that returns at once returns that error
\* without a write, and a delete enters its batch only for a record that
\* exists.
C12_DeleteNotFound ==
    [][\A p \in Procs :
          /\ (pc[p] = "idle" /\ pc'[p] = "idle" /\ result'[p] # result[p])
             => /\ result'[p] = "Transaction not found"
                /\ UNCHANGED <<store, audit_logs, nextId>>
          /\ (pc[p] = "idle" /\ local'[p].op = "delete")
             => local'[p].id \in DOMAIN transactions]_vars

\* C12 witness: a delete of a missing id has failed while the ledger holds
\* a record and the audit log an entry.
C12_Witness ==
    /\ \E p \in Procs : result[p] = "Transaction not found"
    /\ DOMAIN transactions # {}
    /\ audit_logs > 0

\* C13 (as claimed): a call whose batch has committed ends successfully,
\* also when the write of its audit entry fails.
C13_AuditBestEffort ==
    [][\A p \in Procs :
          (pc[p] = "audit" /\ pc'[p] = "idle") => result'[p] = "ok"]_vars

\* The payload is one the webhook has to reject: a required field is
\* missing, the type is not income or expense, the date does not parse, the
\* amount is not positive after rounding to cents, or the category id it
\* resolves to does not exist.
InvalidPayload(body) ==
    \/ body.json = "null"
    \/ body.date.kind = "undefined"
    \/ body.type \notin {"income", "expense"}
    \/ body.amount.kind = "undefined"
    \/ body.categoryId.kind = "undefined"
    \/ body.createdBy = ""
    \/ body.date.kind \in {"number", "text"}
    \/ body.amount.kind = "nan"
    \/ AmountCents(body.amount) <= 0
    \/ body.categoryId.kind \in {"number", "path"}
    \/ body.categoryId.kind = "id" /\ body.categoryId.v \notin DOMAIN categories

\* C11 (as claimed): while the webhook handles a payload it has to reject,
\* no transaction is created and no summary changes, and its response is a
\* 400 with an entry of collection webhook_errors holding the payload and
\* the reason.
C11_WebhookRejects ==
    [][(request.handler = "webhook" /\ InvalidPayload(request.body))
        => /\ UNCHANGED <<store, nextId>>
           /\ request'.pc = "idle"
              => /\ request'.status = 400
                 /\ [payload |-> request.body, error |-> request.reason]
                       \in webhook_errors']_vars

\* C14 (as claimed): once a validation has failed, the response is its 400,
\* whether the webhook_errors entry could be written or not.
C14_ErrorLoggingBestEffort ==
    [][(request.handler = "webhook" /\ request.pc = "log" /\ request'.pc # "log")
        => (request'.pc = "idle" /\ request'.status = 400)]_vars

C16_RoleNeverSelfEscalated ==
    [][/\ (request.pc = "user_set" /\ request'.pc = "guard")
          => request.uid \notin DOMAIN users
       /\ DOMAIN users \subseteq DOMAIN users'
       /\ \A u \in DOMAIN users' :
             /\ u \notin DOMAIN users
                => (request.pc = "user_set" /\ request.uid = u /\ users'[u] = "staff")
             /\ (u \in DOMAIN users /\ users'[u] # users[u])
                => (request' = request /\ users'[u] = "admin")]_vars

\* C16 witness: a user created as staff by a first login was promoted out of
\* band and is now seen as admin by a request, next to a staff user.
C16_Witness ==
    /\ request.pc = "guard"
    /\ request.role = "admin"
    /\ request.uid \in DOMAIN users
    /\ \E u \in DOMAIN users : users[u] = "staff"

\* ISO weekday of a day number: 1 (Monday) .. 7 (Sunday).
ISOWeekday(z) == IF GetDay(z) = 0 THEN 7 ELSE GetDay(z)

\* The number of ISO weeks of year y: 53 when the year starts on a Thursday,
\* or is a leap year and starts on a Wednesday, else 52.
ISOWeeksInYear(y) ==
    LET jan1 == ISOWeekday(DaysFromCivil(y, 1, 1))
        leap == DaysFromCivil(y + 1, 1, 1) - DaysFromCivil(y, 1, 1) = 366
    IN  IF jan1 = 4 \/ (leap /\ jan1 = 3) THEN 53 ELSE 52

\* C17 (as claimed): an instant whose civil date in Athens is Jan 1 of year
\* y gets the week key of week 1 of y when Jan 1 is a Monday to Thursday, and
\* else the key of the last week of y - 1, with y - 1 as its year.
C17_ISOWeekKeyOfJan1 ==
    clock.run =>
       LET z == toZonedTime(clock.t) \div 24
           c == CivilFromDays(z)
       IN  (c.month = 1 /\ c.day = 1)
           => IF ISOWeekday(z) <= 4
              THEN clock.weekKey = <<c.year, 1>>
              ELSE clock.weekKey = <<c.year - 1, ISOWeeksInYear(c.year - 1)>>

\* The instant lies in the inclusive range.
InRange(u, r) == r.start <= u /\ u <= r.end

\* C18 (as claimed): for each of day, week and month, the instant t lies in
\* the range returned for t, and any instant u lies in that range exactly
\* when u has the period key of t.
C18_RangesAgreeWithKeys ==
    clock.run =>
       /\ InRange(clock.t, clock.dayRange)
       /\ InRange(clock.t, clock.weekRange)
       /\ InRange(clock.t, clock.monthRange)
       /\ \A u \in ClockInstants :
             /\ InRange(u, clock.dayRange) <=> toDateKey(u) = clock.dateKey
             /\ InRange(u, clock.weekRange) <=> toISOWeekKey(u) = clock.weekKey
             /\ InRange(u, clock.monthRange) <=> toMonthKey(u) = clock.monthKey

\* C19 (as claimed): the Date parseDateKey returns for the date key of t has
\* the year, month and day of the key as its date fields, and its date key is
\* the key again.
C19_ParseDateKeyRoundTrip ==
    clock.run =>
       /\ <<clock.parsed.year, clock.parsed.month, clock.parsed.day>> = clock.dateKey
       /\ toDateKey(clock.parsedInstant) = clock.dateKey

\* C20 (as claimed): the keys, the parsed date and the range bounds computed
\* for an instant are the same on every host.
C20_HostIndependent ==
    clock.run =>
       \A host \in HostOffsets :
          LET w == parseDateKey(clock.dateKey, host)
          IN  /\ CivilFromDays(w \div 24) = clock.parsed
              /\ HostToInstant(w, host) = clock.parsedInstant
              /\ getDayRange(clock.t, host) = clock.dayRange
              /\ getWeekRange(clock.t) = clock.weekRange
              /\ getMonthRange(clock.t) = clock.monthRange
              /\ toDateKey(clock.t) = clock.dateKey
              /\ toISOWeekKey(clock.t) = clock.weekKey
              /\ toMonthKey(clock.t) = clock.monthKey

\* C25 (as claimed): a ledger record is subtracted from the summaries at most
\* once: a deleteTransaction call commits its decrement only while the record
\* is still in the ledger, also when two calls for the same id run
\* concurrently.
C25_SubtractedAtMostOnce ==
    [][\A p \in Procs :
          Commits(p, "delete") => local[p].id \in DOMAIN transactions]_vars

\* The counters of every stored summary document.
StoredDocs ==
    {stats_daily[k] : k \in DOMAIN stats_daily}
       \cup {stats_weekly[k] : k \in DOMAIN stats_weekly}
       \cup {stats_monthly[k] : k \in DOMAIN stats_monthly}

\* C26 (as claimed): under any interleaving of createTransaction and
\* deleteTransaction calls with amountCents >= 0, every stored summary
\* document has incomeCents, expenseCents, countIncome and countExpense >= 0.
C26_CountersNonNegative ==
    \A doc \in StoredDocs :
       /\ doc.incomeCents >= 0 /\ doc.expenseCents >= 0
       /\ doc.countIncome >= 0 /\ doc.countExpense >= 0

\* Schedule i was active and due when sweep p ran its query.
DueAtStart(p, i) ==
    /\ i \in DOMAIN sweep[p].start
    /\ sweep[p].start[i].active
    /\ sweep[p].start[i].nextDueDate <= sweep[p].now

\* `next` is one period of the frequency after `due` on the calendar of the
\* host: a day or seven days later, or the same day of the next month or of
\* the next year at the same time of day; where the next month or year has no
\* such day, only that `next` is later.
OnePeriodLater(next, due, frequency, host) ==
    LET a == CivilFromDays((due + host) \div 24)
        b == CivilFromDays((next + host) \div 24)
    IN  /\ (next + host) % 24 = (due + host) % 24
        /\ CASE frequency = "daily"   -> next = due + 24
             [] frequency = "weekly"  -> next = due + 7 * 24
             [] frequency = "monthly" ->
                   IF a.day <= 28
                   THEN /\ b.day = a.day
                        /\ b.year * 12 + b.month = a.year * 12 + a.month + 1
                   ELSE next > due
             [] frequency = "yearly"  ->
                   IF a.day <= 28
                   THEN b = [a EXCEPT !.year = @ + 1]
                   ELSE next > due

\* Sweep p gives its 200 response in this step.
SweepReturns(p) == sweep[p].pc = "next" /\ sweep'[p].pc = "idle"

Duplicates ==
    {pair \in swept.made \X swept.made :
        /\ pair[1].payment = pair[2].payment
        /\ pair[1].due = pair[2].due
        /\ pair[1].tx # pair[2].tx}

C29_StopsAfterEndDate ==
    \A m \in swept.made :
       repeatable_payments[m.payment].endDate # 0
       => m.due <= repeatable_payments[m.payment].endDate

\* C30: a schedule has been advanced past a due instant by the sweep only
\* when a ledger transaction for that due instant had been committed by a
\* sweep, also after a sweep ended at any of its steps.
C30_AdvancedOnlyAfterCreate ==
    \A a \in swept.advanced :
       \E m \in swept.made : m.payment = a.payment /\ m.due = a.due

\* C30 witness: a schedule was advanced and a sweep was ended by an exception.
C30_Witness ==
    /\ swept.advanced # {}
    /\ swept.thrown
    /\ \E p \in Procs : sweep[p].status = 500

\* The ISO-8601 week key of an instant: the week number with the year of the
\* week's Thursday.
ISOWeekKey(t) ==
    LET z == toZonedTime(t) \div 24
    IN  <<CivilFromDays(z + 4 - ISOWeekday(z)).year, getISOWeek(z)>>

\* The month key k months before a month key.
MonthsBack(key, k) ==
    LET n == key[1] * 12 + (key[2] - 1) - k
    IN  <<n \div 12, (n % 12) + 1>>

\* C24 (as claimed): the weekly history table of getDashboardData has 8 rows,
\* one for each of the last 8 ISO weeks ending at the current week, most
\* recent first, and the monthly history table has 12 rows, one for each of
\* the last 12 months, most recent first.
C24_HistoryTables ==
    request.handler = "dashboard" =>
       LET data == getDashboardData(transactions, categories, clock.t, clock.host)
       IN  /\ Len(data.weeklyTable) = 8
           /\ \A k \in 1..8 :
                 data.weeklyTable[k].key = ISOWeekKey(clock.t - (k - 1) * 7 * 24)
           /\ Len(data.monthlyTable) = 12
           /\ \A k \in 1..12 :
                 data.monthlyTable[k].key = MonthsBack(toMonthKey(clock.t), k - 1)

\* The sum of amountCents over every ledger record of a type with
\* fromDate <= ts <= toDate whose category is Cash or Online Payment.
MatchingCents(type, fromDate, toDate) ==
    LET ids == getPaymentTypeIds(categories)
    IN  SumAmounts(transactions,
                   {i \in DOMAIN transactions :
                       /\ transactions[i].ts >= fromDate
                       /\ transactions[i].ts <= toDate
                       /\ transactions[i].type = type
                       /\ transactions[i].categoryId \in {ids.cashId, ids.onlineId}})

\* C27 (as claimed): for every range and every ledger size,
\* getComputedPeriodSummary returns incomeCents and expenseCents equal to the
\* sums over all the ledger records in the range whose category is Cash or
\* Online Payment; the scan drops none of them.
C27_ScanCountsEveryRecord ==
    request.handler = "summary" =>
       /\ request.data.incomeCents
             = MatchingCents("income", request.fromDate, request.toDate)
       /\ request.data.expenseCents
             = MatchingCents("expense", request.fromDate, request.toDate)

====
